---- MODULE Spec2Model ----
(***************************************************************************)
(* A model of probe_all_models.py: the model classifier (category_for),    *)
(* the error summariser (err_summary), the per-category probes (probe_one, *)
(* probe_text_like), the orchestrating loop and the report writers (main,  *)
(* write_md).  Identifiers, endpoints and messages are strings; the HTTP   *)
(* peer is the environment and answers every request with a response drawn *)
(* from a small pool, or with a transport exception.  Wall-clock values    *)
(* (durationMs, generatedAt, the sleeps) are not part of the state.        *)
(***************************************************************************)
EXTENDS Integers, Sequences, FiniteSets, TLC

VARIABLES
    auth_mode,    \* Client.auth_mode: "bearer" or "none"
    api_key,      \* Client.api_key: "" stands for an unset or empty variable
    wav_exists,   \* os.path.exists(wav_path) at the start of main
    pc,           \* position of main
    exit_code,    \* process exit status once pc = "exit", Running before
    uncaught,     \* name of the exception that ended the process, "" if none
    listing,      \* the answer received to GET /v1/models
    model_ids,    \* main's model_ids
    idx,          \* 1-based position of the loop over model_ids
    results,      \* main's results
    st,           \* probe_text_like's st
    j,            \* probe_text_like's j
    es,           \* probe_text_like's es
    j3,           \* probe_text_like's j3
    trace,        \* requests of the probe in progress or last finished, with their answers
    sent,         \* every HTTP request sent during the run, in order
    received,     \* the answer to each of them, in the same order, in a recorded run
    json_written, \* the JSON report has been written
    md_written,   \* the Markdown report has been written
    cat_in,       \* input of the stand-alone classifier run
    cat_out,      \* output of the stand-alone classifier run
    err_in,       \* input of the stand-alone err_summary run
    err_out,      \* output of the stand-alone err_summary run
    run,          \* 0: the run is not recorded, 1: it is, 2: it replays the recorded run
    recorded,     \* the answers the recorded run received, <<>> before it has ended
    first_results \* the results of the recorded run, <<>> before it has ended

vars == <<auth_mode, api_key, wav_exists, pc, exit_code, uncaught, listing, model_ids, idx,
          results, st, j, es, j3, trace, sent, received, json_written, md_written,
          cat_in, cat_out, err_in, err_out, run, recorded, first_results>>

-----------------------------------------------------------------------------
(* Strings                                                                 *)

Char(s, k) == SubSeq(s, k, k)

\* The characters that occur in identifiers, in code-point order.
Ascii == "\t -.0123456789ABCDEFGHIJKLMNOPQRSTUVWXYZ_abcdefghijklmnopqrstuvwxyz"

UpperAlpha == "ABCDEFGHIJKLMNOPQRSTUVWXYZ"

LowerAlpha == "abcdefghijklmnopqrstuvwxyz"

\* The rank of each character in that order.
OrdOf ==
    [c \in {Char(Ascii, k) : k \in 1..Len(Ascii)} |->
        CHOOSE k \in 1..Len(Ascii) : Char(Ascii, k) = c]

Ord(c) == OrdOf[c]

Min(a, b) == IF a < b THEN a ELSE b

IsSpace(c) == c \in {" ", "\t"}

\* The lower-case letter of each upper-case letter.
LowerOf ==
    [c \in {Char(UpperAlpha, k) : k \in 1..Len(UpperAlpha)} |->
        Char(LowerAlpha, CHOOSE k \in 1..Len(UpperAlpha) : Char(UpperAlpha, k) = c)]

LowerChar(c) == IF c \in DOMAIN LowerOf THEN LowerOf[c] ELSE c

RECURSIVE lower(_)
lower(s) == IF s = "" THEN "" ELSE LowerChar(Char(s, 1)) \o lower(SubSeq(s, 2, Len(s)))

RECURSIVE lstrip(_)
lstrip(s) ==
    IF s # "" /\ IsSpace(Char(s, 1)) THEN lstrip(SubSeq(s, 2, Len(s))) ELSE s

RECURSIVE rstrip(_)
rstrip(s) ==
    IF s # "" /\ IsSpace(Char(s, Len(s))) THEN rstrip(SubSeq(s, 1, Len(s) - 1)) ELSE s

strip(s) == rstrip(lstrip(s))

startswith(m, p) == Len(m) >= Len(p) /\ SubSeq(m, 1, Len(p)) = p

contains(m, sub) ==
    \E k \in 0..(Len(m) - Len(sub)) : SubSeq(m, k + 1, k + Len(sub)) = sub

\* Python's < on str: the first differing character decides, a proper prefix is smaller.
StrLess(a, b) ==
    \/ Len(a) < Len(b) /\ SubSeq(b, 1, Len(a)) = a
    \/ \E k \in 1..Min(Len(a), Len(b)) :
          /\ SubSeq(a, 1, k - 1) = SubSeq(b, 1, k - 1)
          /\ Ord(Char(a, k)) < Ord(Char(b, k))

RECURSIVE sorted(_)
sorted(S) ==
    IF S = {} THEN <<>>
    ELSE LET m == CHOOSE x \in S : \A y \in S \ {x} : StrLess(x, y)
         IN  <<m>> \o sorted(S \ {m})

-----------------------------------------------------------------------------
(* JSON values and Python optionals                                        *)

\* A JSON scalar: a string, a number (kept as its text) or null.
JStr(s) == [t |-> "str", s |-> s]

JNum(s) == [t |-> "num", s |-> s]

JNull == [t |-> "null", s |-> ""]

\* Python truthiness of a JSON scalar.
Truthy(v) == (v.t = "str" /\ v.s # "") \/ (v.t = "num" /\ v.s # "0")

\* None is the empty sequence, any other value x is <<x>>.
None == <<>>

Some(x) == <<x>>

-----------------------------------------------------------------------------
(* category_for                                                            *)

\* category_for with the search rules tried before the audio rules.
category_for_search_first(mid) ==
    LET m == lower(mid) IN
    IF startswith(m, "sora-") THEN "video"
    ELSE IF contains(m, "realtime") THEN "realtime"
    ELSE IF contains(m, "computer-use") THEN "computer_use"
    ELSE IF contains(m, "moderation") THEN "moderation"
    ELSE IF contains(m, "embedding") THEN "embeddings"
    ELSE IF contains(m, "search") THEN "search"
    ELSE IF contains(m, "transcribe") \/ m = "whisper-1" THEN "transcribe"
    ELSE IF startswith(m, "tts-") \/ contains(m, "-tts") THEN "tts"
    ELSE IF contains(m, "audio-preview") \/ startswith(m, "gpt-audio") THEN "audio_chat"
    ELSE IF contains(m, "deep-research") THEN "deep_research"
    ELSE IF m \in {"dall-e-2", "dall-e-3"} THEN "dalle"
    ELSE IF contains(m, "image") THEN "image"
    ELSE "text"

category_for(mid) ==
    LET m == lower(mid) IN
    IF startswith(m, "sora-") THEN "video"
    ELSE IF contains(m, "realtime") THEN "realtime"
    ELSE IF contains(m, "computer-use") THEN "computer_use"
    ELSE IF contains(m, "moderation") THEN "moderation"
    ELSE IF contains(m, "embedding") THEN "embeddings"
    ELSE IF contains(m, "transcribe") \/ m = "whisper-1" THEN "transcribe"
    ELSE IF startswith(m, "tts-") \/ contains(m, "-tts") THEN "tts"
    ELSE IF contains(m, "audio-preview") \/ startswith(m, "gpt-audio") THEN "audio_chat"
    ELSE IF contains(m, "deep-research") THEN "deep_research"
    ELSE IF contains(m, "search-api") \/ contains(m, "search-preview") THEN "search"
    ELSE IF contains(m, "search") THEN "search"
    ELSE IF m \in {"dall-e-2", "dall-e-3"} THEN "dalle"
    ELSE IF contains(m, "image") THEN "image"
    ELSE "text"

-----------------------------------------------------------------------------
(* HTTP answers as they arrive on the wire                                 *)

\* The value of the "error" key of a JSON object: k is "absent" (no key, or
\* null), "empty" ({}), "str" (a non-empty string) or "env" (an object with
\* type, code, param and message).
ErrVal(k, type, code, param, message) ==
    [k |-> k, type |-> type, code |-> code, param |-> param, message |-> message]

NoError == ErrVal("absent", JNull, JNull, JNull, JNull)

StrError == ErrVal("str", JNull, JNull, JNull, JNull)

EnvServer == ErrVal("env", JStr("server_error"), JNull, JNull, JStr("boom"))

EnvSize == ErrVal("env", JStr("invalid_request_error"), JNull, JStr("size"), JStr("invalid size"))

EnvNumMsg == ErrVal("env", JStr("invalid_request_error"), JStr("bad"), JNull, JNum("123"))

NoExc == [name |-> "", text |-> ""]

\* An answer: a raised exception, or a status, a content type and a body that
\* is JSON or not, a JSON object or not, with the object's "error" value.
Answer(status, ct, json, dict, error) ==
    [raised |-> FALSE, exc |-> NoExc, st |-> status, ct |-> ct,
     json |-> json, dict |-> dict, error |-> error]

Raise(name, text) ==
    [raised |-> TRUE, exc |-> [name |-> name, text |-> text], st |-> 0, ct |-> "",
     json |-> FALSE, dict |-> FALSE, error |-> NoError]

OK200 == Answer(200, "application/json", TRUE, TRUE, NoError)

AUDIO200 == Answer(200, "audio/mpeg", FALSE, FALSE, NoError)

LIST200 == Answer(200, "application/json", TRUE, FALSE, NoError)

ERR200 == Answer(200, "application/json", TRUE, TRUE, StrError)

SRV200 == Answer(200, "application/json", TRUE, TRUE, EnvServer)

SRV500 == Answer(500, "application/json", TRUE, TRUE, EnvServer)

BAD400 == Answer(400, "application/json", TRUE, TRUE, EnvSize)

NUM400 == Answer(400, "application/json", TRUE, TRUE, EnvNumMsg)

RAW502 == Answer(502, "text/html", FALSE, FALSE, NoError)

TIMEOUT == Raise("ReadTimeout", "timed out")

\* What the peer may answer to a probe request; audio only comes from the
\* speech endpoint.
Answers(path) ==
    {OK200, LIST200, ERR200, SRV200, SRV500, BAD400, NUM400, RAW502, TIMEOUT}
      \cup (IF path = "/v1/audio/speech" THEN {AUDIO200} ELSE {})

-----------------------------------------------------------------------------
(* The transport client                                                    *)

\* A body as the probes see it: a JSON object or not, and its "error" value.
Body(dict, error) == [dict |-> dict, error |-> error]

NoBody == Body(FALSE, NoError)

\* The headers built without the check of the key.
headers_never_raise == FALSE

\* Client.headers_json and Client.headers_multipart raise when the mode is
\* bearer and the key is unset or empty.
headers_raise == auth_mode = "bearer" /\ api_key = ""

\* r.json(), or {"_raw": ...} when the body is not JSON.
parse(a) == IF a.json THEN Body(a.dict, IF a.dict THEN a.error ELSE NoError)
            ELSE Body(TRUE, NoError)

\* post_json: an audio content type gives {"_binary": True}.
post_json(a) ==
    [st |-> a.st,
     j  |-> IF startswith(a.ct, "audio/") THEN Body(TRUE, NoError) ELSE parse(a),
     ct |-> a.ct]

post_multipart(a) == [st |-> a.st, j |-> parse(a), ct |-> a.ct]

\* j.get("error") raises AttributeError when j is not a dict.
get_raises(b) == ~b.dict

AttributeError == [name |-> "AttributeError", text |-> "'list' object has no attribute 'get'"]

\* What `(msg or "").replace` raises in write_md for a number.
ReplaceError == [name |-> "AttributeError", text |-> "'int' object has no attribute 'replace'"]

\* What Client.headers_json and Client.headers_multipart raise.
RuntimeError == [name |-> "RuntimeError", text |-> "OPENAI_API_KEY is required for auth-mode=bearer"]

\* bool(j.get("error"))
has_error(b) == b.error.k \in {"str", "env"}

MsgMax == 240

MsgKeep == 237

\* err_summary cutting at 240 characters before it adds the marker.
err_summary_cuts_at_240(b) ==
    IF ~b.dict THEN None
    ELSE IF b.error.k \notin {"empty", "env"} THEN None
    ELSE LET msg == b.error.message IN
         Some([type    |-> b.error.type,
               code    |-> b.error.code,
               param   |-> b.error.param,
               message |-> IF msg.t = "str" /\ Len(msg.s) > MsgMax
                           THEN JStr(SubSeq(msg.s, 1, MsgMax) \o "...")
                           ELSE msg])

err_summary(b) ==
    IF ~b.dict THEN None
    ELSE IF b.error.k \notin {"empty", "env"} THEN None
    ELSE LET msg == b.error.message IN
         Some([type    |-> b.error.type,
               code    |-> b.error.code,
               param   |-> b.error.param,
               message |-> IF msg.t = "str" /\ Len(msg.s) > MsgMax
                           THEN JStr(SubSeq(msg.s, 1, MsgKeep) \o "...")
                           ELSE msg])

-----------------------------------------------------------------------------
(* The model listing                                                       *)

\* An element of the listing's "data": a JSON object with an "id" (a string,
\* or null when the key is missing), or a JSON value that is not an object.
Entry(id) == [dict |-> TRUE, id |-> id]

NonDictEntry == [dict |-> FALSE, id |-> JNull]

\* An answer to GET /v1/models.
ListAnswer(status, json, dict, data) ==
    [raised |-> FALSE, exc |-> NoExc, st |-> status, json |-> json, dict |-> dict,
     data |-> data]

ListRaise(name, text) ==
    [raised |-> TRUE, exc |-> [name |-> name, text |-> text], st |-> 0,
     json |-> FALSE, dict |-> FALSE, data |-> <<>>]

NoListing == ListAnswer(0, FALSE, FALSE, <<>>)

ListOf(ids) == ListAnswer(200, TRUE, TRUE, ids)

LScenario == ListOf(<<Entry(JStr("gpt-4o")), Entry(JStr("DALL-E-3")), Entry(JStr("whisper-1"))>>)

LDup == ListOf(<<Entry(JStr("text-davinci-003")), Entry(JStr(" Sora-2\t")),
                 Entry(JStr("sora-2")), Entry(JNull)>>)

LMisc == ListOf(<<Entry(JStr("tts-1")), Entry(JStr("")), NonDictEntry, Entry(JStr("TTS-1"))>>)

LBlank == ListOf(<<Entry(JStr("  "))>>)

LTools == ListOf(<<Entry(JStr("o3-deep-research"))>>)

LComputer == ListOf(<<Entry(JStr("computer-use-preview"))>>)

LSingles == ListOf(<<Entry(JStr("gpt-4o-search-preview")), Entry(JStr("chatgpt-image-latest")),
                     Entry(JStr("text-embedding-3-small"))>>)

LNoData == ListAnswer(200, TRUE, TRUE, <<>>)

LNotObject == ListAnswer(200, TRUE, FALSE, <<>>)

LNotJson == ListAnswer(200, FALSE, FALSE, <<>>)

L401 == ListAnswer(401, TRUE, TRUE, <<>>)

L502 == ListAnswer(502, FALSE, FALSE, <<>>)

LTimeout == ListRaise("ConnectTimeout", "timed out")

\* What the peer may answer to the listing request.
Listings ==
    {LScenario, LDup, LMisc, LBlank, LTools, LComputer, LSingles, LNoData, LNotObject, LNotJson,
     L401, L502, LTimeout}

\* get_models: the status and r.json(), or {"_raw": ...} when the body is not JSON.
get_models(a) ==
    [st |-> a.st,
     j  |-> IF a.json THEN [dict |-> a.dict, data |-> IF a.dict THEN a.data ELSE <<>>]
            ELSE [dict |-> TRUE, data |-> <<>>]]

\* models_resp.get("data", []) if isinstance(models_resp, dict) else []
models_of(models_resp) == IF models_resp.dict THEN models_resp.data ELSE <<>>

\* The identifier list without the lower-casing.
ids_of_keep_case(models) ==
    sorted({strip(models[k].id.s) :
              k \in {n \in 1..Len(models) : models[n].dict /\ Truthy(models[n].id)}})

RECURSIVE Reverse(_)
Reverse(q) == IF q = <<>> THEN <<>> ELSE Reverse(Tail(q)) \o <<Head(q)>>

\* The identifier list left in an order that changes from one process to the
\* next, as the iteration order of a set of strings does.
ids_of_unsorted(models) ==
    LET ids == sorted({lower(strip(models[k].id.s)) :
                         k \in {n \in 1..Len(models) : models[n].dict /\ Truthy(models[n].id)}})
    IN  IF run = 2 THEN Reverse(ids) ELSE ids

\* The identifier list in descending order.
ids_of_descending(models) ==
    Reverse(sorted({lower(strip(models[k].id.s)) :
                      k \in {n \in 1..Len(models) : models[n].dict /\ Truthy(models[n].id)}}))

\* sorted({m.get("id").strip().lower() for m in models if isinstance(m, dict) and m.get("id")})
ids_of(models) ==
    sorted({lower(strip(models[k].id.s)) :
              k \in {n \in 1..Len(models) : models[n].dict /\ Truthy(models[n].id)}})

-----------------------------------------------------------------------------
(* Outcomes                                                                *)

Categories ==
    {"video", "realtime", "computer_use", "moderation", "embeddings", "transcribe",
     "tts", "audio_chat", "deep_research", "search", "dalle", "image", "text"}

\* The categories probed through probe_text_like.
TextLike == {"text", "computer_use", "deep_research"}

\* The categories probed with one JSON request judged by status and error.
SingleJson == {"realtime", "embeddings", "moderation", "image", "dalle", "audio_chat", "search"}

endpoint_of(cat) ==
    CASE cat = "video"      -> "/v1/videos"
      [] cat = "realtime"   -> "/v1/realtime/sessions"
      [] cat = "embeddings" -> "/v1/embeddings"
      [] cat = "moderation" -> "/v1/moderations"
      [] cat \in {"image", "dalle"} -> "/v1/images/generations"
      [] cat = "tts"        -> "/v1/audio/speech"
      [] cat = "transcribe" -> "/v1/audio/transcriptions"
      [] cat \in {"audio_chat", "search"} -> "/v1/chat/completions"
      [] OTHER              -> "/v1/responses"

AllEndpoints == "/v1/responses|/v1/chat/completions|/v1/completions"

\* The dict every branch of probe_one returns.
outcome(mid, cat, ok, endpoint, http, error) ==
    [model |-> mid, category |-> cat, ok |-> ok, skipped |-> FALSE,
     endpoint |-> endpoint, http |-> http, error |-> error]

\* The dict of probe_one's video branch, which alone has a note.
video_outcome(mid, cat, ok, http, error, note) ==
    [model |-> mid, category |-> cat, ok |-> ok, skipped |-> FALSE,
     endpoint |-> Some("/v1/videos"), http |-> http, error |-> error, note |-> note]

\* f"exception: {type(e).__name__}: {e}"
exc_message(e) == "exception: " \o e.name \o ": " \o e.text

\* The dict main builds when probe_one raises.
exc_outcome(mid, e) ==
    outcome(mid, category_for(mid), FALSE, None, None,
            Some([message |-> JStr(exc_message(e))]))

\* str(st) for the statuses of the pool
str_of(n) ==
    CASE n = 200 -> "200" [] n = 400 -> "400" [] n = 401 -> "401"
      [] n = 500 -> "500" [] n = 502 -> "502" [] OTHER -> "0"

Req(mid, path) == [mid |-> mid, path |-> path]

Exchange(path, a) == [path |-> path, answer |-> a]

-----------------------------------------------------------------------------
(* main                                                                    *)

Running == -1

ExitOk == 0

ExitUncaught == 1

ExitNoWav == 2

ExitListing == 3

Init ==
    /\ auth_mode \in {"bearer", "none"}
    /\ api_key \in {"", "sk-test"}
    /\ wav_exists \in BOOLEAN
    /\ pc = "start"
    /\ exit_code = Running
    /\ uncaught = ""
    /\ listing = NoListing
    /\ model_ids = <<>>
    /\ idx = 1
    /\ results = <<>>
    /\ st = 0
    /\ j = NoBody
    /\ es = None
    /\ j3 = NoBody
    /\ trace = <<>>
    /\ sent = <<>>
    /\ received = <<>>
    /\ json_written = FALSE
    /\ md_written = FALSE
    /\ cat_in = ""
    /\ cat_out = ""
    /\ err_in = NoBody
    /\ err_out = None
    /\ run = 0
    /\ recorded = <<>>
    /\ first_results = <<>>

config == <<auth_mode, api_key, wav_exists>>

locals == <<st, j, es, j3>>

classifier == <<cat_in, cat_out>>

summariser == <<err_in, err_out>>

replay == <<run, recorded, first_results>>

\* main returns code and the process ends with that status.
Return(code) ==
    /\ pc' = "exit"
    /\ exit_code' = code
    /\ UNCHANGED uncaught

\* An exception leaves main: the interpreter prints it and exits with status 1.
Crash(e) ==
    /\ pc' = "exit"
    /\ exit_code' = ExitUncaught
    /\ uncaught' = e.name

\* main goes on.
Continue == UNCHANGED <<exit_code, uncaught>>

\* main without the check of the wav file.
CheckWav_unchecked ==
    /\ pc = "start"
    /\ pc' = "fetch"
    /\ Continue
    /\ UNCHANGED <<config, listing, model_ids, idx, results, locals, trace, sent, received,
                   json_written, md_written, classifier, summariser, replay>>

\* main, lines 434-438: the probe wav file must exist.
CheckWav ==
    /\ pc = "start"
    /\ IF ~wav_exists THEN Return(ExitNoWav) ELSE pc' = "fetch" /\ Continue
    /\ UNCHANGED <<config, listing, model_ids, idx, results, locals, trace, sent, received,
                   json_written, md_written, classifier, summariser, replay>>

\* The answer a to the request just sent is kept when the run is recorded.
Record(a) == received' = IF run = 0 THEN received ELSE Append(received, a)

\* What the peer answers to the next request, out of the answers possible
\* for it: any of them, but in a replaying run the answer the recorded run
\* received to its request of the same rank, as long as it has one.
Peer(pool) ==
    IF run = 2 /\ Len(received) < Len(recorded) /\ recorded[Len(received) + 1] \in pool
    THEN {recorded[Len(received) + 1]}
    ELSE pool

\* The status check failing on server errors only.
listing_failed_5xx(status) == status >= 500

\* main, line 441: `if st != 200`
listing_failed(status) == status # 200

\* main, lines 440-449: get_models, the status check and the identifier list.
\* Client.headers_json is evaluated before requests.get is called; what it
\* raises is not caught.
FetchModels ==
    /\ pc = "fetch"
    /\ IF headers_raise
       THEN /\ Crash(RuntimeError)
            /\ UNCHANGED <<listing, model_ids, sent, received>>
       ELSE \E a \in Peer(Listings) :
              /\ sent' = Append(sent, Req("", "/v1/models"))
              /\ Record(a)
              /\ listing' = a
              /\ IF a.raised
                 THEN Crash(a.exc) /\ UNCHANGED model_ids
                 ELSE LET r == get_models(a) IN
                      IF listing_failed(r.st)
                      THEN Return(ExitListing) /\ UNCHANGED model_ids
                      ELSE /\ model_ids' = ids_of(models_of(r.j))
                           /\ pc' = "loop"
                           /\ Continue
    /\ UNCHANGED <<config, idx, results, locals, trace, json_written, md_written,
                   classifier, summariser, replay>>

\* The loop has a model left to probe.
InLoop == pc = "loop" /\ idx <= Len(model_ids)

\* The loop left at the first probe that raised.
Finish_breaks(r) ==
    /\ results' = Append(results, r)
    /\ idx' = IF r.endpoint = None THEN Len(model_ids) + 1 ELSE idx + 1
    /\ pc' = "loop"
    /\ st' = 0
    /\ j' = NoBody
    /\ es' = None
    /\ j3' = NoBody

\* main, lines 454-473: the outcome r is appended and the loop moves on.
Finish(r) ==
    /\ results' = Append(results, r)
    /\ idx' = idx + 1
    /\ pc' = "loop"
    /\ st' = 0
    /\ j' = NoBody
    /\ es' = None
    /\ j3' = NoBody

\* What a call of post_json or post_multipart on path may give: the headers
\* are built first, and when that raises no request is sent.
Calls(path) == IF headers_raise THEN {Raise(RuntimeError.name, RuntimeError.text)}
               ELSE Peer(Answers(path))

\* The request of the probe of mid to path is sent and answered by a.
Send(mid, path, a, first) ==
    IF headers_raise THEN UNCHANGED <<sent, received, trace>>
    ELSE /\ sent' = Append(sent, Req(mid, path))
         /\ Record(a)
         /\ trace' = IF first THEN <<Exchange(path, a)>>
                     ELSE Append(trace, Exchange(path, a))

\* The outcome of a probe that judges one answer by its status alone.
single_outcome_status_only(mid, cat, r) ==
    IF r.st = 200 /\ get_raises(r.j) THEN exc_outcome(mid, AttributeError)
    ELSE LET ok == r.st = 200 IN
         outcome(mid, cat, ok, Some(endpoint_of(cat)), Some(r.st),
                 IF ok THEN None ELSE err_summary(r.j))

\* The outcome of a probe that judges one answer r by `st == 200 and not j.get("error")`.
single_outcome(mid, cat, r) ==
    IF r.st = 200 /\ get_raises(r.j) THEN exc_outcome(mid, AttributeError)
    ELSE LET ok == r.st = 200 /\ ~has_error(r.j) IN
         outcome(mid, cat, ok, Some(endpoint_of(cat)), Some(r.st),
                 IF ok THEN None ELSE err_summary(r.j))

\* probe_one, lines 241-279 and 308-349: realtime, embeddings, moderation,
\* image, dalle, audio_chat and search.  What the call raises main turns into
\* an outcome.
ProbeSingleJson ==
    /\ InLoop
    /\ category_for(model_ids[idx]) \in SingleJson
    /\ LET mid == model_ids[idx]
           cat == category_for(mid)
       IN  \E a \in Calls(endpoint_of(cat)) :
             /\ Send(mid, endpoint_of(cat), a, TRUE)
             /\ Finish(IF a.raised THEN exc_outcome(mid, a.exc)
                       ELSE single_outcome(mid, cat, post_json(a)))
    /\ UNCHANGED <<config, exit_code, uncaught, listing, model_ids, json_written,
                   md_written, classifier, summariser, replay>>

\* probe_one, lines 295-306: the wav file is uploaded with post_multipart.
ProbeTranscribe ==
    /\ InLoop
    /\ category_for(model_ids[idx]) = "transcribe"
    /\ LET mid == model_ids[idx]
           cat == category_for(mid)
       IN  \E a \in Calls(endpoint_of(cat)) :
             /\ Send(mid, endpoint_of(cat), a, TRUE)
             /\ Finish(IF a.raised THEN exc_outcome(mid, a.exc)
                       ELSE single_outcome(mid, cat, post_multipart(a)))
    /\ UNCHANGED <<config, exit_code, uncaught, listing, model_ids, json_written,
                   md_written, classifier, summariser, replay>>

\* The video outcome with the note on every HTTP 400.
video_result_note_on_400(mid, cat, r) ==
    LET e    == err_summary(r.j)
        size == r.st = 400 /\ e # None /\ e[1].param = JStr("size")
    IN  IF ~size /\ r.st = 200 /\ get_raises(r.j) THEN exc_outcome(mid, AttributeError)
        ELSE LET ok   == size \/ (r.st = 200 /\ ~has_error(r.j))
                 note == IF r.st = 400 THEN Some("validation-only (invalid size)")
                         ELSE None
             IN  video_outcome(mid, cat, ok, Some(r.st), IF ok THEN None ELSE e, note)

\* The video outcome that keeps the error summary when it is ok.
video_result_keeps_error(mid, cat, r) ==
    LET e    == err_summary(r.j)
        size == r.st = 400 /\ e # None /\ e[1].param = JStr("size")
    IN  IF ~size /\ r.st = 200 /\ get_raises(r.j) THEN exc_outcome(mid, AttributeError)
        ELSE LET ok   == size \/ (r.st = 200 /\ ~has_error(r.j))
                 note == IF r.st = 400 /\ ok THEN Some("validation-only (invalid size)")
                         ELSE None
             IN  video_outcome(mid, cat, ok, Some(r.st), e, note)

\* The outcome of the video probe for the answer r (lines 235-239).
video_result(mid, cat, r) ==
    LET e    == err_summary(r.j)
        size == r.st = 400 /\ e # None /\ e[1].param = JStr("size")
    IN  IF ~size /\ r.st = 200 /\ get_raises(r.j) THEN exc_outcome(mid, AttributeError)
        ELSE LET ok   == size \/ (r.st = 200 /\ ~has_error(r.j))
                 note == IF r.st = 400 /\ ok THEN Some("validation-only (invalid size)")
                         ELSE None
             IN  video_outcome(mid, cat, ok, Some(r.st), IF ok THEN None ELSE e, note)

\* probe_one, lines 227-239: the validation-only video probe.
ProbeVideo ==
    /\ InLoop
    /\ category_for(model_ids[idx]) = "video"
    /\ LET mid == model_ids[idx]
           cat == category_for(mid)
       IN  \E a \in Calls("/v1/videos") :
             /\ Send(mid, "/v1/videos", a, TRUE)
             /\ Finish(IF a.raised THEN exc_outcome(mid, a.exc)
                       ELSE video_result(mid, cat, post_json(a)))
    /\ UNCHANGED <<config, exit_code, uncaught, listing, model_ids, json_written,
                   md_written, classifier, summariser, replay>>

\* The outcome of the speech probe for the answer r (lines 288-293).
tts_result(mid, cat, r) ==
    LET ok  == r.st = 200 /\ startswith(r.ct, "audio/")
        e   == err_summary(r.j)
        err == IF ok THEN None
               ELSE IF e # None THEN e
               ELSE Some([message |-> JStr("http " \o str_of(r.st)),
                          content_type |-> JStr(r.ct)])
    IN  outcome(mid, cat, ok, Some("/v1/audio/speech"), Some(r.st), err)

\* probe_one, lines 281-293: text to speech.
ProbeTts ==
    /\ InLoop
    /\ category_for(model_ids[idx]) = "tts"
    /\ LET mid == model_ids[idx]
           cat == category_for(mid)
       IN  \E a \in Calls("/v1/audio/speech") :
             /\ Send(mid, "/v1/audio/speech", a, TRUE)
             /\ Finish(IF a.raised THEN exc_outcome(mid, a.exc)
                       ELSE tts_result(mid, cat, post_json(a)))
    /\ UNCHANGED <<config, exit_code, uncaught, listing, model_ids, json_written,
                   md_written, classifier, summariser, replay>>

-----------------------------------------------------------------------------
(* probe_text_like, one action per request                                 *)

\* probe_one, lines 325-334 and 352-353: the dict built from probe_text_like's.
text_outcome(mid, ok, endpoint, http, error) ==
    outcome(mid, category_for(mid), ok, Some(endpoint), Some(http), error)

\* The chain without its retry.
retry_never(e) == FALSE

\* The retry after any error envelope.
retry_on_any_error(e) == e # None

\* `es and es.get("type") == "server_error"`
retry_wanted(e) == e # None /\ e[1].type = JStr("server_error")

\* The error taken from the latest answer that has one.
final_error_latest(e, e3, e4) ==
    IF e4 # None THEN e4
    ELSE IF e3 # None THEN e3
    ELSE IF e # None THEN e
    ELSE Some([message |-> JStr("unknown")])

\* `es or err_summary(j3) or err_summary(j4) or {"message": "unknown"}`
final_error(e, e3, e4) ==
    IF e # None THEN e
    ELSE IF e3 # None THEN e3
    ELSE IF e4 # None THEN e4
    ELSE Some([message |-> JStr("unknown")])

\* The chain blind to a success.
text_success_ignored(a) == FALSE

\* `st == 200 and not j.get("error")` on the answer of a call of the chain
text_success(a) == post_json(a).st = 200 /\ ~has_error(post_json(a).j)

\* The call ends the probe: it raised, the test of the answer raised, or the
\* answer is a success.
text_ends(a) ==
    \/ a.raised
    \/ post_json(a).st = 200 /\ get_raises(post_json(a).j)
    \/ text_success(a)

\* The outcome of the probe that the call to path ended.
text_end_outcome(mid, path, a) ==
    IF a.raised THEN exc_outcome(mid, a.exc)
    ELSE IF post_json(a).st = 200 /\ get_raises(post_json(a).j)
         THEN exc_outcome(mid, AttributeError)
         ELSE text_outcome(mid, TRUE, path, post_json(a).st, None)

\* probe_text_like, lines 178-185: the first request to /v1/responses.
TextPrimary ==
    /\ InLoop
    /\ category_for(model_ids[idx]) \in TextLike
    /\ \E a \in Calls("/v1/responses") :
         /\ Send(model_ids[idx], "/v1/responses", a, TRUE)
         /\ IF text_ends(a)
            THEN Finish(text_end_outcome(model_ids[idx], "/v1/responses", a))
            ELSE /\ st' = post_json(a).st
                 /\ j' = post_json(a).j
                 /\ es' = err_summary(post_json(a).j)
                 /\ pc' = IF retry_wanted(err_summary(post_json(a).j)) THEN "retry"
                          ELSE "chat"
                 /\ UNCHANGED <<results, idx, j3>>
    /\ UNCHANGED <<config, exit_code, uncaught, listing, model_ids, json_written,
                   md_written, classifier, summariser, replay>>

\* probe_text_like, lines 186-190: the one retry after a server_error.
TextRetry ==
    /\ pc = "retry"
    /\ \E a \in Calls("/v1/responses") :
         /\ Send(model_ids[idx], "/v1/responses", a, FALSE)
         /\ IF text_ends(a)
            THEN Finish(text_end_outcome(model_ids[idx], "/v1/responses", a))
            ELSE /\ st' = post_json(a).st
                 /\ j' = post_json(a).j
                 /\ es' = err_summary(post_json(a).j)
                 /\ pc' = "chat"
                 /\ UNCHANGED <<results, idx, j3>>
    /\ UNCHANGED <<config, exit_code, uncaught, listing, model_ids, json_written,
                   md_written, classifier, summariser, replay>>

\* The chain giving up after the chat endpoint.
TextChat_gives_up ==
    /\ pc = "chat"
    /\ \E a \in Calls("/v1/chat/completions") :
         /\ Send(model_ids[idx], "/v1/chat/completions", a, FALSE)
         /\ IF text_ends(a)
            THEN Finish(text_end_outcome(model_ids[idx], "/v1/chat/completions", a))
            ELSE Finish(text_outcome(model_ids[idx], FALSE, AllEndpoints, st,
                                     final_error(es, err_summary(post_json(a).j), None)))
    /\ UNCHANGED <<config, exit_code, uncaught, listing, model_ids, json_written,
                   md_written, classifier, summariser, replay>>

\* probe_text_like, lines 192-204: /v1/chat/completions.
TextChat ==
    /\ pc = "chat"
    /\ \E a \in Calls("/v1/chat/completions") :
         /\ Send(model_ids[idx], "/v1/chat/completions", a, FALSE)
         /\ IF text_ends(a)
            THEN Finish(text_end_outcome(model_ids[idx], "/v1/chat/completions", a))
            ELSE /\ j3' = post_json(a).j
                 /\ pc' = "completion"
                 /\ UNCHANGED <<results, idx, st, j, es>>
    /\ UNCHANGED <<config, exit_code, uncaught, listing, model_ids, json_written,
                   md_written, classifier, summariser, replay>>

\* The failed outcome reporting the status of the completion answer.
TextCompletion_last_status ==
    /\ pc = "completion"
    /\ \E a \in Calls("/v1/completions") :
         /\ Send(model_ids[idx], "/v1/completions", a, FALSE)
         /\ IF text_ends(a)
            THEN Finish(text_end_outcome(model_ids[idx], "/v1/completions", a))
            ELSE Finish(text_outcome(model_ids[idx], FALSE, AllEndpoints, post_json(a).st,
                                     final_error(es, err_summary(j3),
                                                 err_summary(post_json(a).j))))
    /\ UNCHANGED <<config, exit_code, uncaught, listing, model_ids, json_written,
                   md_written, classifier, summariser, replay>>

\* probe_text_like, lines 206-220: /v1/completions and the failed outcome.
TextCompletion ==
    /\ pc = "completion"
    /\ \E a \in Calls("/v1/completions") :
         /\ Send(model_ids[idx], "/v1/completions", a, FALSE)
         /\ IF text_ends(a)
            THEN Finish(text_end_outcome(model_ids[idx], "/v1/completions", a))
            ELSE Finish(text_outcome(model_ids[idx], FALSE, AllEndpoints, st,
                                     final_error(es, err_summary(j3),
                                                 err_summary(post_json(a).j))))
    /\ UNCHANGED <<config, exit_code, uncaught, listing, model_ids, json_written,
                   md_written, classifier, summariser, replay>>

-----------------------------------------------------------------------------
(* The report                                                              *)

\* write_md, lines 400-411: `(msg or "").replace(...)` raises AttributeError
\* for a failed outcome whose error message is truthy and not a string.
md_raises(rs) ==
    \E k \in 1..Len(rs) :
       /\ ~rs[k].ok /\ ~rs[k].skipped
       /\ rs[k].error # None
       /\ "message" \in DOMAIN rs[k].error[1]
       /\ Truthy(rs[k].error[1].message)
       /\ rs[k].error[1].message.t # "str"

\* main, lines 475-491: the loop is over; the JSON report is written, then
\* write_md runs, and what it raises is not caught.
WriteReport ==
    /\ pc = "loop"
    /\ idx > Len(model_ids)
    /\ json_written' = TRUE
    /\ IF md_raises(results)
       THEN Crash(ReplaceError) /\ UNCHANGED md_written
       ELSE Return(ExitOk) /\ md_written' = TRUE
    /\ UNCHANGED <<config, listing, model_ids, idx, results, locals, trace, sent, received,
                   classifier, summariser, replay>>

Next ==
    \/ CheckWav
    \/ FetchModels
    \/ ProbeSingleJson
    \/ ProbeTranscribe
    \/ ProbeVideo
    \/ ProbeTts
    \/ TextPrimary
    \/ TextRetry
    \/ TextChat
    \/ TextCompletion
    \/ WriteReport

Spec == Init /\ [][Next]_vars

-----------------------------------------------------------------------------
(* Two runs on the same configuration and the same answers                 *)

\* The process has ended and is started again with the same command line,
\* environment and wav file, against a peer that replays the answers of the
\* run that ended.
Restart ==
    /\ pc = "exit"
    /\ run = 1
    /\ run' = 2
    /\ recorded' = received
    /\ first_results' = results
    /\ pc' = "start"
    /\ exit_code' = Running
    /\ uncaught' = ""
    /\ listing' = NoListing
    /\ model_ids' = <<>>
    /\ idx' = 1
    /\ results' = <<>>
    /\ st' = 0
    /\ j' = NoBody
    /\ es' = None
    /\ j3' = NoBody
    /\ trace' = <<>>
    /\ sent' = <<>>
    /\ received' = <<>>
    /\ json_written' = FALSE
    /\ md_written' = FALSE
    /\ UNCHANGED <<config, classifier, summariser>>

\* The start of a recorded run, in bearer mode with or without the key.
InitTwice ==
    /\ auth_mode = "bearer"
    /\ api_key \in {"", "sk-test"}
    /\ wav_exists \in BOOLEAN
    /\ pc = "start"
    /\ exit_code = Running
    /\ uncaught = ""
    /\ listing = NoListing
    /\ model_ids = <<>>
    /\ idx = 1
    /\ results = <<>>
    /\ st = 0
    /\ j = NoBody
    /\ es = None
    /\ j3 = NoBody
    /\ trace = <<>>
    /\ sent = <<>>
    /\ received = <<>>
    /\ json_written = FALSE
    /\ md_written = FALSE
    /\ cat_in = ""
    /\ cat_out = ""
    /\ err_in = NoBody
    /\ err_out = None
    /\ run = 1
    /\ recorded = <<>>
    /\ first_results = <<>>

NextTwice == Next \/ Restart

SpecTwice == InitTwice /\ [][NextTwice]_vars

-----------------------------------------------------------------------------
(* category_for on its own                                                 *)

MaxTokens == 2

\* The fragments the classifier's rules look for, and some that match none.
Tokens ==
    {"sora-", "realtime", "computer-use", "moderation", "embedding", "transcribe",
     "whisper-1", "tts-", "-tts", "audio-preview", "gpt-audio", "deep-research",
     "search-api", "search-preview", "search", "dall-e-2", "dall-e-3", "image",
     "gpt-4o", "GPT-", "-"}

RECURSIVE Concat(_)
Concat(n) ==
    IF n = 0 THEN {""}
    ELSE LET shorter == Concat(n - 1) IN
         shorter \cup {s \o t : s \in shorter, t \in Tokens}

CatExamples ==
    {"gpt-audio-search-preview", "gpt-4o-audio-preview", "gpt-4o-mini-tts",
     "gpt-4o-transcribe", "o3-deep-research", "gpt-image-1", "DALL-E-3",
     "Sora-2", "omni-moderation-latest", "gpt-4o-realtime-preview"}

CatInputs == Concat(MaxTokens) \cup CatExamples

InitCat ==
    /\ auth_mode = "none"
    /\ api_key = ""
    /\ wav_exists = TRUE
    /\ pc = "classify"
    /\ exit_code = Running
    /\ uncaught = ""
    /\ listing = NoListing
    /\ model_ids = <<>>
    /\ idx = 1
    /\ results = <<>>
    /\ st = 0
    /\ j = NoBody
    /\ es = None
    /\ j3 = NoBody
    /\ trace = <<>>
    /\ sent = <<>>
    /\ received = <<>>
    /\ json_written = FALSE
    /\ md_written = FALSE
    /\ cat_in \in CatInputs
    /\ cat_out = ""
    /\ err_in = NoBody
    /\ err_out = None
    /\ run = 0
    /\ recorded = <<>>
    /\ first_results = <<>>

\* One call of category_for.
Classify ==
    /\ pc = "classify"
    /\ cat_out' = category_for(cat_in)
    /\ pc' = "classified"
    /\ UNCHANGED <<config, exit_code, uncaught, listing, model_ids, idx, results, locals,
                   trace, sent, received, json_written, md_written, cat_in, summariser,
                   replay>>

NextCat == Classify

SpecCat == InitCat /\ [][NextCat]_vars

-----------------------------------------------------------------------------
(* err_summary on its own                                                  *)

MaxMsgLen == 245

\* The first n characters of the unit repeated without end.
RECURSIVE Fill(_, _)
Fill(unit, n) ==
    IF n <= Len(unit) THEN SubSeq(unit, 1, n)
    ELSE Fill(unit \o unit, n)

\* The texts the messages are cut from: digits, letters, and dots alone.
Units == {"0123456789", "abcdefg", "."}

Messages ==
    {JStr(Fill(u, n)) : u \in Units, n \in 0..MaxMsgLen}
      \cup {JNull, JNum("123"), JNum("0")}

\* The bodies err_summary is called with: error envelopes with each message,
\* an empty envelope, and bodies without an envelope.
ErrInputs ==
    {Body(TRUE, ErrVal("env", JStr("server_error"), JNull, JNull, m)) : m \in Messages}
      \cup {Body(TRUE, ErrVal("empty", JNull, JNull, JNull, JNull)),
            Body(TRUE, NoError), Body(TRUE, StrError), Body(FALSE, NoError)}

InitErr ==
    /\ auth_mode = "none"
    /\ api_key = ""
    /\ wav_exists = TRUE
    /\ pc = "summarise"
    /\ exit_code = Running
    /\ uncaught = ""
    /\ listing = NoListing
    /\ model_ids = <<>>
    /\ idx = 1
    /\ results = <<>>
    /\ st = 0
    /\ j = NoBody
    /\ es = None
    /\ j3 = NoBody
    /\ trace = <<>>
    /\ sent = <<>>
    /\ received = <<>>
    /\ json_written = FALSE
    /\ md_written = FALSE
    /\ cat_in = ""
    /\ cat_out = ""
    /\ err_in \in ErrInputs
    /\ err_out = None
    /\ run = 0
    /\ recorded = <<>>
    /\ first_results = <<>>

\* One call of err_summary.
Summarise ==
    /\ pc = "summarise"
    /\ err_out' = err_summary(err_in)
    /\ pc' = "summarised"
    /\ UNCHANGED <<config, exit_code, uncaught, listing, model_ids, idx, results, locals,
                   trace, sent, received, json_written, md_written, classifier, err_in,
                   replay>>

NextErr == Summarise

SpecErr == InitErr /\ [][NextErr]_vars

-----------------------------------------------------------------------------
(* Vocabulary of the properties, stated on the answers as sent by the peer *)

IsAudio(a) == startswith(a.ct, "audio/")

\* The answer is HTTP 200 and its body carries no error.
WireOk(a) ==
    /\ ~a.raised
    /\ a.st = 200
    /\ IsAudio(a) \/ ~a.json \/ (a.dict /\ a.error.k = "absent")

\* The answer carries an error envelope.
WireEnvelope(a) ==
    ~a.raised /\ ~IsAudio(a) /\ a.json /\ a.dict /\ a.error.k \in {"env", "empty"}

\* The exchange makes the probe raise: the transport raised, or the body of
\* an HTTP 200 answer is JSON but not an object (the speech probe never looks
\* into the body).
Raises(x) ==
    \/ x.answer.raised
    \/ /\ x.path # "/v1/audio/speech"
       /\ x.answer.st = 200 /\ ~IsAudio(x.answer) /\ x.answer.json /\ ~x.answer.dict

\* A probe has finished, and trace holds its exchanges.
ProbeDone == pc \in {"loop", "exit"} /\ results # <<>> /\ trace # <<>>

Last == results[Len(results)]

Requested(path) == \E k \in 1..Len(trace) : trace[k].path = path

AnyRaised == \E k \in 1..Len(trace) : Raises(trace[k])

\* The listing call returned HTTP 200.
Listed == ~listing.raised /\ listing.st = 200

\* The rules of the classifier, in the order of the specification.
RuleCategory ==
    <<"video", "realtime", "computer_use", "moderation", "embeddings", "transcribe",
      "tts", "audio_chat", "deep_research", "search", "dalle", "image", "text">>

RuleHolds(k, m) ==
    CASE k = 1  -> startswith(m, "sora-")
      [] k = 2  -> contains(m, "realtime")
      [] k = 3  -> contains(m, "computer-use")
      [] k = 4  -> contains(m, "moderation")
      [] k = 5  -> contains(m, "embedding")
      [] k = 6  -> contains(m, "transcribe") \/ m = "whisper-1"
      [] k = 7  -> startswith(m, "tts-") \/ contains(m, "-tts")
      [] k = 8  -> contains(m, "audio-preview") \/ startswith(m, "gpt-audio")
      [] k = 9  -> contains(m, "deep-research")
      [] k = 10 -> contains(m, "search-api") \/ contains(m, "search-preview")
                   \/ contains(m, "search")
      [] k = 11 -> m = "dall-e-2" \/ m = "dall-e-3"
      [] k = 12 -> contains(m, "image")
      [] OTHER  -> TRUE

FirstRule(m) ==
    CHOOSE k \in 1..13 : RuleHolds(k, m) /\ \A i \in 1..(k - 1) : ~RuleHolds(i, m)

RuleCategoryOf(mid) == RuleCategory[FirstRule(lower(mid))]

-----------------------------------------------------------------------------
(* C1 *)

\* The ids the listing gives: the non-empty string ids of its object entries.
ListedIds ==
    {listing.data[k].id.s :
       k \in {n \in 1..Len(listing.data) :
                /\ listing.data[n].dict
                /\ listing.data[n].id.t = "str"
                /\ listing.data[n].id.s # ""}}

ResultModels == {results[k].model : k \in 1..Len(results)}

-----------------------------------------------------------------------------
(* C2 *)

\* C2: category_for returns one of the 13 categories, the one of the first
\* rule of the specification's list that holds on the lower-cased identifier.
C2_FirstRuleWins ==
    pc = "classified" =>
        /\ cat_out \in Categories
        /\ cat_out = RuleCategoryOf(cat_in)

\* gpt-audio-search-preview matches audio_chat and search and is audio_chat.
C2_Witness ==
    /\ pc = "classified"
    /\ cat_in = "gpt-audio-search-preview"
    /\ RuleHolds(8, cat_in) /\ RuleHolds(10, cat_in)
    /\ cat_out = "audio_chat"

-----------------------------------------------------------------------------
(* C3 *)

\* The first answer carried a server_error envelope and the second exchange
\* of the probe was answered with HTTP 200 and no error.
C3_Case ==
    /\ Len(trace) >= 2
    /\ trace[1].path = "/v1/responses"
    /\ WireEnvelope(trace[1].answer)
    /\ trace[1].answer.error.type = JStr("server_error")
    /\ WireOk(trace[2].answer)

\* C3: then the second exchange was the retry of /v1/responses, it ended the
\* probe, the outcome is ok with no error and the primary endpoint alone, and
\* no request of that model went to the chat or completion endpoint.
C3_RetrySuccess ==
    C3_Case =>
        /\ Len(trace) = 2
        /\ trace[2].path = "/v1/responses"
        /\ pc \in {"loop", "exit"}
        /\ Last.ok
        /\ Last.error = None
        /\ Last.endpoint = Some("/v1/responses")
        /\ \A k \in 1..Len(sent) :
              sent[k].mid = Last.model =>
                  sent[k].path \notin {"/v1/chat/completions", "/v1/completions"}

C3_Witness ==
    /\ C3_Case
    /\ ProbeDone
    /\ trace[1].answer.st = 500
    /\ Last.ok

-----------------------------------------------------------------------------
(* C4 *)

TextDone == ProbeDone /\ Last.category \in {"text", "computer_use", "deep_research"}

Joined == "/v1/responses|/v1/chat/completions|/v1/completions"

\* The three endpoints were requested and no answer was HTTP 200 without error.
AllFailed ==
    /\ Requested("/v1/responses")
    /\ Requested("/v1/chat/completions")
    /\ Requested("/v1/completions")
    /\ \A k \in 1..Len(trace) : ~WireOk(trace[k].answer)

\* C4 as stated: a text-like outcome is ok=false exactly when all three
\* endpoints were requested and none succeeded, and exactly then its endpoint
\* is the joined list.
C4_Original ==
    TextDone =>
        /\ ~Last.ok <=> AllFailed
        /\ Last.endpoint = Some(Joined) <=> AllFailed

\* C4 amended: a text-like outcome is ok=false exactly when a request of the
\* probe raised or all three endpoints were requested and none succeeded; its
\* endpoint is the joined list exactly when all three failed and none raised.
C4_FailedIffRaisedOrAllFailed ==
    TextDone =>
        /\ ~Last.ok <=> (AnyRaised \/ AllFailed)
        /\ Last.endpoint = Some(Joined) <=> (AllFailed /\ ~AnyRaised)

\* Four requests, with the retry, all failed without raising.
C4_Witness ==
    /\ TextDone
    /\ Len(trace) = 4
    /\ AllFailed /\ ~AnyRaised
    /\ ~Last.ok
    /\ Last.endpoint = Some(Joined)

-----------------------------------------------------------------------------
(* C5 *)

VideoDone == ProbeDone /\ Last.category = "video"

\* HTTP 400 with an error envelope whose param is "size".
Size400(a) == WireEnvelope(a) /\ a.st = 400 /\ a.error.param = JStr("size")

NoteOf(r) == IF "note" \in DOMAIN r THEN r.note ELSE None

\* C5: a video outcome is ok exactly when its one /v1/videos answer is HTTP
\* 400 about the size or HTTP 200 without error; an ok outcome has no error;
\* the note is set exactly when ok was reached on the HTTP 400 path.
C5_VideoRule ==
    VideoDone =>
        /\ Len(trace) = 1
        /\ trace[1].path = "/v1/videos"
        /\ Last.ok <=> (Size400(trace[1].answer) \/ WireOk(trace[1].answer))
        /\ Last.ok => Last.error = None
        /\ NoteOf(Last) # None <=> (Last.ok /\ trace[1].answer.st = 400)

C5_Witness ==
    /\ VideoDone
    /\ Size400(trace[1].answer)
    /\ Last.ok
    /\ Last.error = None
    /\ NoteOf(Last) # None

-----------------------------------------------------------------------------
(* C6 *)

\* The listing call returned a status other than 200.
ListingRefused == listing # NoListing /\ ~listing.raised /\ listing.st # 200

\* C6: after a listing answer other than 200 the run has ended with the
\* listing-failure status, the listing request is the only request ever
\* sent, there is no outcome and no report.
C6_ListingFailureAborts ==
    ListingRefused =>
        /\ pc = "exit"
        /\ exit_code = ExitListing
        /\ uncaught = ""
        /\ sent = <<Req("", "/v1/models")>>
        /\ results = <<>>
        /\ ~json_written /\ ~md_written

C6_Witness ==
    /\ listing = L401
    /\ pc = "exit"
    /\ exit_code = ExitListing
    /\ results = <<>>

-----------------------------------------------------------------------------
(* C7 *)

\* The outcome main records for a probe that raised e.
IsExceptionOutcome(r, e) ==
    /\ ~r.ok
    /\ ~r.skipped
    /\ r.category = RuleCategoryOf(r.model)
    /\ r.error # None
    /\ r.error[1].message.t = "str"
    /\ contains(r.error[1].message.s, e.name)
    /\ contains(r.error[1].message.s, e.text)

\* What the last exchange of the trace made the probe raise.
RaisedBy(x) ==
    IF x.answer.raised THEN x.answer.exc
    ELSE [name |-> "AttributeError", text |-> "has no attribute 'get'"]

\* C7: every identifier up to the loop's position has exactly one outcome,
\* its own; a probe that raised left an outcome with ok=false, skipped=false,
\* the model's category and the exception's description; and the run only
\* ends after the last identifier, whatever was raised on the way.
C7_ExceptionIsOutcome ==
    /\ Listed /\ pc \in {"loop", "exit"} =>
          /\ Len(results) = idx - 1
          /\ \A k \in 1..Len(results) : results[k].model = model_ids[k]
    /\ ProbeDone /\ Raises(trace[Len(trace)]) =>
          IsExceptionOutcome(Last, RaisedBy(trace[Len(trace)]))
    /\ Listed /\ pc = "exit" => Len(results) = Len(model_ids)

\* The first probe raised, and the loop went on to the second and third model.
C7_Witness ==
    /\ pc = "exit"
    /\ Len(results) = 3
    /\ IsExceptionOutcome(results[1], TIMEOUT.exc)
    /\ results[2].ok
    /\ IsExceptionOutcome(results[3], AttributeError)

-----------------------------------------------------------------------------
(* C8 *)

\* C8: without the wav file the run never sends a request and never has an
\* outcome or a report, and it ends with a non-zero status that is not the
\* listing-failure status.
C8_MissingWavAborts ==
    ~wav_exists =>
        /\ pc \in {"start", "exit"}
        /\ sent = <<>>
        /\ listing = NoListing
        /\ results = <<>>
        /\ ~json_written /\ ~md_written
        /\ pc = "exit" => exit_code = ExitNoWav /\ exit_code # ExitOk
                                                /\ exit_code # ExitListing

C8_Witness ==
    /\ ~wav_exists
    /\ pc = "exit"
    /\ exit_code = ExitNoWav
    /\ sent = <<>>

-----------------------------------------------------------------------------
(* C9 *)

\* C9 as stated, for a finished run: once the listing returned 200 the run
\* ends with status zero and a report holding one outcome per identifier.
C9_Original ==
    (pc = "exit" /\ Listed) =>
        /\ exit_code = ExitOk
        /\ json_written /\ md_written
        /\ Len(results) = Len(model_ids)

-----------------------------------------------------------------------------
(* C10 *)

NoCredential == api_key = ""

\* C10: in bearer mode without a credential the run never sends a request,
\* never has an outcome or a report, and ends with a non-zero status - by the
\* RuntimeError of the headers when the wav file exists; in mode none no run
\* ever ends by that error.
C10_MissingCredentialAborts ==
    /\ (auth_mode = "bearer" /\ NoCredential) =>
          /\ pc \in {"start", "fetch", "exit"}
          /\ sent = <<>>
          /\ results = <<>>
          /\ ~json_written /\ ~md_written
          /\ pc = "exit" => /\ exit_code # ExitOk
                            /\ wav_exists => (exit_code = ExitUncaught
                                              /\ uncaught = "RuntimeError")
    /\ auth_mode = "none" => uncaught # "RuntimeError"

C10_Witness ==
    /\ auth_mode = "bearer"
    /\ NoCredential
    /\ wav_exists
    /\ pc = "exit"
    /\ uncaught = "RuntimeError"
    /\ sent = <<>>

-----------------------------------------------------------------------------
(* C11 *)

\* err_summary was called on a body whose error envelope has a string message.
StrMessageIn ==
    /\ pc = "summarised"
    /\ err_in.dict
    /\ err_in.error.k = "env"
    /\ err_in.error.message.t = "str"

\* C11: a string message longer than 240 characters comes out as its first
\* 237 characters followed by "...", 240 characters in all; a string message
\* of 240 characters or fewer comes out unchanged; so no string message of a
\* summary is longer than 240 characters.
C11_MessageTruncatedTo240 ==
    /\ StrMessageIn =>
          LET m == err_in.error.message.s IN
          /\ err_out # None
          /\ err_out[1].message.t = "str"
          /\ Len(m) > 240 =>
                /\ err_out[1].message.s = SubSeq(m, 1, 237) \o "..."
                /\ Len(err_out[1].message.s) = 240
          /\ Len(m) <= 240 => err_out[1].message.s = m
    /\ (pc = "summarised" /\ err_out # None /\ err_out[1].message.t = "str") =>
          Len(err_out[1].message.s) <= 240

\* A message of 241 digits came out as 237 digits and the marker.
C11_Witness ==
    /\ StrMessageIn
    /\ Len(err_in.error.message.s) = 241
    /\ Char(err_in.error.message.s, 241) = "0"
    /\ Len(err_out[1].message.s) = 240
    /\ SubSeq(err_out[1].message.s, 236, 240) = "56..."

-----------------------------------------------------------------------------
(* C12 *)

\* The replaying run has ended.
SecondRunDone == run = 2 /\ pc = "exit"

-----------------------------------------------------------------------------
(* C13 *)

\* trace holds the exchanges of a text-like probe, in progress or finished.
TextTrace == pc \in {"retry", "chat", "completion"} \/ TextDone

PathOf(k) == trace[k].path

\* C13: the requests of a text-like probe are /v1/responses, at most once
\* more /v1/responses, then /v1/chat/completions, then /v1/completions; each
\* request but the first follows an answer that was not HTTP 200 without
\* error, the chat request an answer of the primary endpoint and the
\* completion request the answer of the chat endpoint; an ok outcome names
\* the endpoint of the last exchange, the only one answered HTTP 200 without
\* error.
C13_FixedOrder ==
    TextTrace =>
        /\ Len(trace) \in 1..4
        /\ PathOf(1) = "/v1/responses"
        /\ \A k \in 2..Len(trace) :
              /\ ~WireOk(trace[k - 1].answer)
              /\ PathOf(k) = "/v1/responses" => k = 2
              /\ PathOf(k) = "/v1/chat/completions" => PathOf(k - 1) = "/v1/responses"
              /\ PathOf(k) = "/v1/completions" => PathOf(k - 1) = "/v1/chat/completions"
              /\ PathOf(k) \in {"/v1/responses", "/v1/chat/completions", "/v1/completions"}
        /\ (TextDone /\ Last.ok) =>
              /\ WireOk(trace[Len(trace)].answer)
              /\ Last.endpoint = Some(PathOf(Len(trace)))

\* The primary and the chat endpoint failed and the completion endpoint
\* answered HTTP 200 without error.
C13_Witness ==
    /\ TextDone
    /\ Len(trace) = 3
    /\ PathOf(2) = "/v1/chat/completions"
    /\ PathOf(3) = "/v1/completions"
    /\ ~WireOk(trace[1].answer) /\ ~WireOk(trace[2].answer) /\ WireOk(trace[3].answer)
    /\ Last.ok
    /\ Last.endpoint = Some("/v1/completions")

-----------------------------------------------------------------------------
(* C14 *)

\* The number of requests of the probe to path.
TimesRequested(path) == Cardinality({k \in 1..Len(trace) : PathOf(k) = path})

\* The answer carries an error envelope whose type is server_error.
ServerError(a) == WireEnvelope(a) /\ a.error.type = JStr("server_error")

\* C14: a text-like probe sends at most two requests to /v1/responses, at
\* most one to each of the other two endpoints, at most four in all; a second
\* exchange exists on /v1/responses exactly when the first answer was not a
\* success and carried a server_error envelope and the probe went on; and no
\* request follows an answer that raised.
C14_OneRetryOnServerError ==
    TextTrace =>
        /\ TimesRequested("/v1/responses") <= 2
        /\ TimesRequested("/v1/chat/completions") <= 1
        /\ TimesRequested("/v1/completions") <= 1
        /\ Len(trace) <= 4
        /\ Len(trace) >= 2 =>
              (PathOf(2) = "/v1/responses"
                 <=> (~WireOk(trace[1].answer) /\ ServerError(trace[1].answer)))
        /\ pc = "retry" <=> (Len(trace) = 1 /\ ~TextDone /\ ServerError(trace[1].answer))
        /\ \A k \in 1..(Len(trace) - 1) : ~trace[k].answer.raised

\* The retry failed with a server_error too and was not repeated: the probe
\* went on to the chat and completion endpoints and failed.
C14_Witness ==
    /\ TextDone
    /\ Len(trace) = 4
    /\ ServerError(trace[1].answer)
    /\ PathOf(2) = "/v1/responses"
    /\ ServerError(trace[2].answer) /\ trace[2].answer.st = 500
    /\ PathOf(3) = "/v1/chat/completions"
    /\ trace[3].answer.raised = FALSE
    /\ trace[4].answer.raised
    /\ ~Last.ok

-----------------------------------------------------------------------------
(* C15 *)

\* The probe went through the three endpoints, none succeeded, none raised.
FailedOnAll == TextDone /\ AllFailed /\ ~AnyRaised

\* The summary of the error envelope of the answer a; the messages of the
\* peer's answers are shorter than the truncation limit.
SummaryOf(a) ==
    Some([type |-> a.error.type, code |-> a.error.code, param |-> a.error.param,
          message |-> a.error.message])

Placeholder == Some([message |-> JStr("unknown")])

\* The ranks, among the exchanges from rank from on, of those whose answer
\* carries an error envelope.
WithEnvelope(from) == {k \in from..Len(trace) : WireEnvelope(trace[k].answer)}

\* The error a failed probe reports when the exchanges from rank from on count.
ErrorFrom(from) ==
    IF WithEnvelope(from) = {} THEN Placeholder
    ELSE SummaryOf(trace[CHOOSE k \in WithEnvelope(from) :
                            \A i \in WithEnvelope(from) : k <= i].answer)

\* The rank of the last exchange with the primary endpoint.
LastPrimary == IF Len(trace) >= 2 /\ PathOf(2) = "/v1/responses" THEN 2 ELSE 1

\* C15 as stated: the error of a probe that failed on all three endpoints is
\* the summary of the earliest answer of the probe, the first primary answer
\* included, that carries an error envelope, and the placeholder when none does.
C15_Original ==
    FailedOnAll =>
        /\ Last.error # None
        /\ Last.error = ErrorFrom(1)

\* C15 amended: the error of a probe that failed on all three endpoints is
\* never null; it is the summary of the earliest answer carrying an error
\* envelope among the last answer of the primary endpoint (the retry's when
\* there was a retry), the chat answer and the completion answer, and the
\* placeholder when none of these carries one.
C15_ErrorOfLastPrimaryFirst ==
    FailedOnAll =>
        /\ Last.error # None
        /\ Last.error = ErrorFrom(LastPrimary)

\* The first answer was a server_error, the retry an HTTP 400 about the size,
\* and the outcome reports the retry's error.
C15_Witness ==
    /\ FailedOnAll
    /\ Len(trace) = 4
    /\ ServerError(trace[1].answer)
    /\ trace[2].answer = BAD400
    /\ Last.error = SummaryOf(BAD400)
    /\ Last.error # SummaryOf(trace[1].answer)

-----------------------------------------------------------------------------
(* C16 *)

\* The requests of the probes, without the listing request.
ProbeRequests == SubSeq(sent, 2, Len(sent))

\* The loop is running or over: the identifiers ascend strictly, whatever the
\* order of the listing; the outcomes so far are those of the identifiers
\* before the loop's position, in their order; and the probe requests were
\* sent model after model in that order.
ProbedInOrder ==
    (Listed /\ pc \in {"loop", "retry", "chat", "completion", "exit"}) =>
        /\ \A k \in 1..(Len(model_ids) - 1) : StrLess(model_ids[k], model_ids[k + 1])
        /\ {model_ids[k] : k \in 1..Len(model_ids)} = {lower(strip(s)) : s \in ListedIds}
        /\ Len(results) = idx - 1
        /\ \A k \in 1..Len(results) : results[k].model = model_ids[k]
        /\ \A a, b \in 1..Len(ProbeRequests) :
              a < b => \/ ProbeRequests[a].mid = ProbeRequests[b].mid
                       \/ StrLess(ProbeRequests[a].mid, ProbeRequests[b].mid)
        /\ \A a \in 1..Len(ProbeRequests) :
              \E k \in 1..Len(model_ids) :
                 /\ k <= idx
                 /\ ProbeRequests[a].mid = model_ids[k]

\* A step leaves results alone or appends one outcome to it.
AppendOnly ==
    \/ results' = results
    \/ /\ Len(results') = Len(results) + 1
       /\ SubSeq(results', 1, Len(results)) = results

\* C16: the models are probed one after another in ascending order of their
\* normalised identifiers, independent of the listing's order; after k models
\* results is the outcomes of the first k identifiers; and results only grows
\* by appending, an outcome in it never changing or disappearing.
C16_SortedAppendOnly == []ProbedInOrder /\ [][AppendOnly]_vars

\* The listing gave gpt-4o, DALL-E-3, whisper-1 and the outcomes are those of
\* dall-e-3, gpt-4o, whisper-1.
C16_Witness ==
    /\ pc = "exit"
    /\ listing = LScenario
    /\ listing.data[1].id = JStr("gpt-4o")
    /\ Len(results) = 3
    /\ results[1].model = "dall-e-3"
    /\ results[2].model = "gpt-4o"
    /\ results[3].model = "whisper-1"

-----------------------------------------------------------------------------
(* C17 *)

\* The probe of a model outside the text-like categories has finished.
SingleDone == ProbeDone /\ Last.category \notin {"text", "computer_use", "deep_research"}

\* The requests of the run for the model mid.
RequestsFor(mid) == {k \in 2..Len(sent) : sent[k].mid = mid}

\* The success rule of the category cat on the answer a.
SingleSuccess(cat, a) ==
    CASE cat = "tts"   -> ~a.raised /\ a.st = 200 /\ IsAudio(a)
      [] cat = "video" -> Size400(a) \/ WireOk(a)
      [] OTHER         -> WireOk(a)

-----------------------------------------------------------------------------
(* C18 *)

\* The outcome r was accepted on the invalid-size path of the video probe.
AcceptedOnSize(r) == r.category = "video" /\ r.http = Some(400) /\ NoteOf(r) # None

\* C18: every outcome of results that is ok has no error, is not skipped and
\* has the status 200, or 400 when it is a video outcome accepted on the
\* invalid-size path.
C18_OkHasNoError ==
    \A k \in 1..Len(results) :
        results[k].ok =>
            /\ results[k].error = None
            /\ ~results[k].skipped
            /\ results[k].http = Some(200) \/ AcceptedOnSize(results[k])

\* A video outcome accepted with HTTP 400 and a text outcome accepted with
\* HTTP 200, both without error.
C18_Witness ==
    /\ pc = "exit"
    /\ listing = LDup
    /\ Len(results) = 2
    /\ results[1].ok /\ results[1].http = Some(400) /\ results[1].error = None
    /\ results[2].ok /\ results[2].http = Some(200) /\ results[2].error = None

-----------------------------------------------------------------------------
(* C19 *)

\* C19: the http of a probe that failed on all three endpoints is the status
\* of the last answer of the primary endpoint, the retry's when there was a
\* retry and the first answer's otherwise, whichever answer the error was
\* taken from.
C19_HttpOfLastPrimary ==
    FailedOnAll => Last.http = Some(trace[LastPrimary].answer.st)

\* After a retry: the first answer was HTTP 500, the retry a 502 without
\* envelope, the chat answer a 400 whose error is the one reported, the
\* completion answer a 500; the http reported is 502.
C19_Witness ==
    /\ FailedOnAll
    /\ Len(trace) = 4
    /\ trace[1].answer = SRV500
    /\ trace[2].answer = RAW502
    /\ trace[3].answer = BAD400
    /\ trace[4].answer = SRV500
    /\ Last.error = SummaryOf(BAD400)
    /\ Last.http = Some(502)

====
